---- MODULE Spec2Model ----
(***************************************************************************)
(* The monkey-lang parser (package parser) as a state machine.             *)
(*                                                                         *)
(* The Parser struct is the record p: p.l is the lexer's read position in  *)
(* the token sequence `input`, p.curToken / p.peekToken the two-token      *)
(* lookahead, p.errors the error list.  Every function of the parser is an *)
(* action (or, where it has no loop and no callee that loops, an operator  *)
(* on the Parser record); the position inside ParseProgram and its callees *)
(* is pc, the chain of suspended parsePrefixExpression calls is stack.     *)
(*                                                                         *)
(* Text (token literals) is a sequence of one-character strings, so that   *)
(* strconv.ParseInt is computed digit by digit.                            *)
(***************************************************************************)
EXTENDS Integers, Sequences, FiniteSets, TLC

VARIABLES input, p, program, pc, stmt, stack, leftExp, precedence

vars == <<input, p, program, pc, stmt, stack, leftExp, precedence>>

(***************************************************************************)
(* Bounds of the model.                                                    *)
(***************************************************************************)
\* longest arbitrary token stream
MaxLen == 4
\* most statements in a stream of well-formed let / return statements
MaxStmts == 3

(***************************************************************************)
(* package token: token kinds and tokens {Type, Literal}.                  *)
(***************************************************************************)
token_EOF == "EOF"
token_IDENT == "IDENT"
token_INT == "INT"
token_ASSIGN == "ASSIGN"
token_PLUS == "PLUS"
token_MINUS == "MINUS"
token_BANG == "BANG"
token_ASTERISK == "ASTERISK"
token_SLASH == "SLASH"
token_LT == "LT"
token_GT == "GT"
token_EQ == "EQ"
token_NOT_EQ == "NOT_EQ"
token_SEMICOLON == "SEMICOLON"
token_LET == "LET"
token_RETURN == "RETURN"

Token(type, literal) == [Type |-> type, Literal |-> literal]

\* the literal text the tokenizer gives each fixed token kind
KindLiteral(type) ==
    CASE type = token_EOF       -> <<>>
      [] type = token_ASSIGN    -> <<"=">>
      [] type = token_PLUS      -> <<"+">>
      [] type = token_MINUS     -> <<"-">>
      [] type = token_BANG      -> <<"!">>
      [] type = token_ASTERISK  -> <<"*">>
      [] type = token_SLASH     -> <<"/">>
      [] type = token_LT        -> <<"<">>
      [] type = token_GT        -> <<">">>
      [] type = token_EQ        -> <<"=", "=">>
      [] type = token_NOT_EQ    -> <<"!", "=">>
      [] type = token_SEMICOLON -> <<";">>
      [] type = token_LET       -> <<"l", "e", "t">>
      [] type = token_RETURN    -> <<"r", "e", "t", "u", "r", "n">>

Tok(type) == Token(type, KindLiteral(type))

(***************************************************************************)
(* package lexer: NextToken hands out the tokens of the input in order and *)
(* the end-of-input token from then on.  l is the number of tokens handed  *)
(* out so far, plus one.                                                   *)
(***************************************************************************)
NextToken(in, l) ==
    IF l <= Len(in)
    THEN [tok |-> in[l], l |-> l + 1]
    ELSE [tok |-> Tok(token_EOF), l |-> l]

(***************************************************************************)
(* package ast.  A pointer to a node is the node's record; the nil pointer *)
(* and the nil interface value are Nil.                                    *)
(***************************************************************************)
Nil == [node |-> "nil"]

Identifier(tok) == [node |-> "Identifier", Token |-> tok, Value |-> tok.Literal]

IntegerLiteral(tok, value) ==
    [node |-> "IntegerLiteral", Token |-> tok, Value |-> value]

PrefixExpression(tok, right) ==
    [node |-> "PrefixExpression", Token |-> tok, Operator |-> tok.Literal,
     Right |-> right]

InfixExpression(tok, left, right) ==
    [node |-> "InfixExpression", Token |-> tok, Operator |-> tok.Literal,
     Left |-> left, Right |-> right]

LetStatement(tok, name) ==
    [node |-> "LetStatement", Token |-> tok, Name |-> name, Value |-> Nil]

ReturnStatement(tok) ==
    [node |-> "ReturnStatement", Token |-> tok, ReturnValue |-> Nil]

ExpressionStatement(tok, expression) ==
    [node |-> "ExpressionStatement", Token |-> tok, Expression |-> expression]

\* Node.TokenLiteral() of a non-nil node
TokenLiteral(n) == n.Token.Literal

\* An ast.Statement interface value: its dynamic type and its pointer.
\* parseStatement converts the pointer its callee returns (to a LetStatement,
\* a ReturnStatement or an ExpressionStatement) to ast.Statement: the result
\* has a dynamic type even when the pointer is nil, and only the interface
\* value without a dynamic type compares equal to nil.
Iface(dyn, ptr) == [dyn |-> dyn, ptr |-> ptr]

NilIface == Iface("nil", Nil)

IsNilIface(i) == i.dyn = "nil"

(***************************************************************************)
(* Precedence levels and the precedence table.                             *)
(***************************************************************************)
LOWEST == 1
EQUALS == 2
LESSGREATER == 3
SUM == 4
PRODUCT == 5
PREFIX == 6
CALL == 7

\* the keys of the map precedences
precedenceKeys ==
    {token_EQ, token_NOT_EQ, token_LT, token_GT, token_PLUS, token_MINUS,
     token_SLASH, token_ASTERISK}

precedences(t) ==
    CASE t \in {token_EQ, token_NOT_EQ}      -> EQUALS
      [] t \in {token_LT, token_GT}          -> LESSGREATER
      [] t \in {token_PLUS, token_MINUS}     -> SUM
      [] t \in {token_SLASH, token_ASTERISK} -> PRODUCT

(***************************************************************************)
(* The handler registries New fills: the handler registered for a token    *)
(* kind, "nil" when the map has no entry for it.                           *)
(***************************************************************************)
prefixParseFns(t) ==
    CASE t = token_IDENT -> "parseIdentifier"
      [] t = token_INT   -> "parseIntegerLiteral"
      [] t = token_BANG  -> "parsePrefixExpression"
      [] t = token_MINUS -> "parsePrefixExpression"
      [] OTHER           -> "nil"

infixParseFns(t) ==
    IF t \in {token_PLUS, token_MINUS, token_SLASH, token_ASTERISK, token_EQ,
              token_NOT_EQ, token_LT, token_GT}
    THEN "parseInfixExpression"
    ELSE "nil"

(***************************************************************************)
(* The Parser's helpers, as operators on the Parser record q and the input.*)
(***************************************************************************)
nextToken(in, q) ==
    LET n == NextToken(in, q.l)
    IN  [q EXCEPT !.curToken = q.peekToken, !.peekToken = n.tok, !.l = n.l]

curTokenIs(q, t) == q.curToken.Type = t

peekTokenIs(q, t) == q.peekToken.Type = t

\* fmt.Sprintf("expected next token to be %s, got %s instead", t, peekToken.Type)
peekErrorMsg(t, got) ==
    <<"expected next token to be ", t, ", got ", got, " instead">>

\* peekError that starts the list over
peekError_Reset(q, t) ==
    [q EXCEPT !.errors = <<peekErrorMsg(t, q.peekToken.Type)>>]

peekError(q, t) ==
    [q EXCEPT !.errors = Append(q.errors, peekErrorMsg(t, q.peekToken.Type))]

\* expectPeek without its nextToken
expectPeek_NoAdvance(in, q, t) ==
    IF peekTokenIs(q, t)
    THEN [ok |-> TRUE, q |-> q]
    ELSE [ok |-> FALSE, q |-> peekError(q, t)]

\* the result of expectPeek and the Parser after it
expectPeek(in, q, t) ==
    IF peekTokenIs(q, t)
    THEN [ok |-> TRUE, q |-> nextToken(in, q)]
    ELSE [ok |-> FALSE, q |-> peekError(q, t)]

\* noPrefixParseFnError that drops the message
noPrefixParseFnError_Silent(q, t) == q

\* fmt.Sprintf("no prefix parse function for %s found", t)
noPrefixMsg(t) == <<"no prefix parse function for ", t, " found">>

noPrefixParseFnError(q, t) ==
    [q EXCEPT !.errors = Append(q.errors, noPrefixMsg(t))]

peekPrecedence(q) ==
    IF q.peekToken.Type \in precedenceKeys
    THEN precedences(q.peekToken.Type)
    ELSE LOWEST

curPrecedence(q) ==
    IF q.curToken.Type \in precedenceKeys
    THEN precedences(q.curToken.Type)
    ELSE LOWEST

\* the Parser New returns: no errors, two tokens read
New(in) ==
    nextToken(in, nextToken(in,
        [l |-> 1, curToken |-> Token("", <<>>), peekToken |-> Token("", <<>>),
         errors |-> <<>>]))


(***************************************************************************)
(* strconv.ParseInt(s, 0, 64) on text over the characters 0-9 and a-z: the *)
(* base is taken from the prefix (0b, 0o, 0x, a bare leading 0 for octal,  *)
(* decimal otherwise), every remaining character must be a digit of that   *)
(* base, and the value must not exceed the largest int64.   The range is   *)
(* decided on the digits, the way the library's cutoff decides it before   *)
(* the value can wrap.                                                     *)
(***************************************************************************)
Digits == <<"0", "1", "2", "3", "4", "5", "6", "7", "8", "9",
            "a", "b", "c", "d", "e", "f">>

\* the digit value of a character, 16 for a character that is no digit
DigitVal(c) ==
    IF \E i \in 1..16 : Digits[i] = c
    THEN (CHOOSE i \in 1..16 : Digits[i] = c) - 1
    ELSE 16

\* the digits of the largest int64 in the base
MaxInt64Digits(base) ==
    CASE base = 10 -> <<9,2,2,3,3,7,2,0,3,6,8,5,4,7,7,5,8,0,7>>
      [] base = 8  -> <<7,7,7,7,7,7,7,7,7,7,7,7,7,7,7,7,7,7,7,7,7>>
      [] base = 16 -> <<7,15,15,15,15,15,15,15,15,15,15,15,15,15,15,15>>
      [] base = 2  -> [i \in 1..63 |-> 1]

RECURSIVE StripZeros(_)
StripZeros(ds) ==
    IF ds # <<>> /\ Head(ds) = 0 THEN StripZeros(Tail(ds)) ELSE ds

\* digit sequences of equal length: a > b
RECURSIVE DigitsGreater(_, _)
DigitsGreater(a, b) ==
    IF a = <<>> THEN FALSE
    ELSE IF Head(a) # Head(b) THEN Head(a) > Head(b)
    ELSE DigitsGreater(Tail(a), Tail(b))

RECURSIVE Horner(_, _, _)
Horner(ds, base, acc) ==
    IF ds = <<>> THEN acc ELSE Horner(Tail(ds), base, acc * base + Head(ds))

ParseInt(s) ==
    LET prefixed == Len(s) >= 3 /\ s[1] = "0" /\ s[2] \in {"b", "o", "x"}
        base == IF s # <<>> /\ s[1] = "0"
                THEN IF prefixed
                     THEN CASE s[2] = "b" -> 2 [] s[2] = "o" -> 8 [] s[2] = "x" -> 16
                     ELSE 8
                ELSE 10
        rest == IF s # <<>> /\ s[1] = "0"
                THEN IF prefixed THEN SubSeq(s, 3, Len(s)) ELSE Tail(s)
                ELSE s
        ds == [i \in 1..Len(rest) |-> DigitVal(rest[i])]
        sig == StripZeros(ds)
        max == MaxInt64Digits(base)
    IN  IF s = <<>> \/ \E i \in 1..Len(ds) : ds[i] >= base
        THEN [err |-> "syntax", value |-> 0]
        ELSE IF Len(sig) > Len(max) \/ (Len(sig) = Len(max) /\ DigitsGreater(sig, max))
        THEN [err |-> "range", value |-> 0]
        ELSE [err |-> "nil", value |-> Horner(sig, base, 0)]

\* fmt.Sprintf("could not parse %q as integer", literal)
parseIntMsg(literal) == <<"could not parse ", literal, " as integer">>

\* parseIntegerLiteral: the node it returns and the Parser after it
parseIntegerLiteral(q) ==
    LET r == ParseInt(q.curToken.Literal)
    IN  IF r.err # "nil"
        THEN [exp |-> Nil,
              q |-> [q EXCEPT !.errors = Append(q.errors, parseIntMsg(q.curToken.Literal))]]
        ELSE [exp |-> IntegerLiteral(q.curToken, r.value), q |-> q]

parseIdentifier(q) == Identifier(q.curToken)


(***************************************************************************)
(* Token streams the parser is run on.                                     *)
(***************************************************************************)
IdentTok(name) == Token(token_IDENT, name)

IntTok(digits) == Token(token_INT, digits)

\* the names and the integer texts of the streams
Idents == {<<"x">>, <<"y">>}

IntLits == {<<"5">>, <<"1", "0">>, <<"1", "5">>}

\* every token of the arbitrary streams
Alphabet ==
    {Tok(token_LET), Tok(token_RETURN), Tok(token_ASSIGN), Tok(token_SEMICOLON),
     Tok(token_BANG), Tok(token_MINUS), Tok(token_PLUS),
     IdentTok(<<"x">>), IntTok(<<"5">>)}

ArbitraryInputs == UNION {[1..n -> Alphabet] : n \in 0..MaxLen}

\* let <identifier> = <integer> ;
LetTokens(name, digits) ==
    <<Tok(token_LET), IdentTok(name), Tok(token_ASSIGN), IntTok(digits),
      Tok(token_SEMICOLON)>>

\* return <integer> ;
ReturnTokens(digits) ==
    <<Tok(token_RETURN), IntTok(digits), Tok(token_SEMICOLON)>>

\* statements, well-formed and malformed, the statement streams are made of
Fragments ==
    {LetTokens(n, d) : n \in Idents, d \in {<<"5">>, <<"1", "0">>}}
    \cup {ReturnTokens(d) : d \in {<<"5">>, <<"1", "0">>}}
    \cup {<<Tok(token_LET), IntTok(<<"5">>), Tok(token_ASSIGN), IdentTok(<<"x">>),
            Tok(token_SEMICOLON)>>,
          <<Tok(token_LET), IdentTok(<<"x">>), IntTok(<<"5">>), Tok(token_SEMICOLON)>>,
          <<IdentTok(<<"y">>), Tok(token_SEMICOLON)>>,
          <<Tok(token_BANG), IntTok(<<"5">>), Tok(token_SEMICOLON)>>,
          <<Tok(token_ASTERISK), Tok(token_SEMICOLON)>>}

RECURSIVE Concat(_)
Concat(ss) == IF ss = <<>> THEN <<>> ELSE Head(ss) \o Concat(Tail(ss))

StatementInputs ==
    {Concat(fs) : fs \in UNION {[1..n -> Fragments] : n \in 0..MaxStmts}}

\* integer texts with a leading zero, and the smallest one past the largest
\* int64
ZeroLits == {<<"0">>, <<"0", "9">>, <<"0", "1", "0">>}

TooLargeLit == <<"9", "2", "2", "3", "3", "7", "2", "0", "3", "6",
                 "8", "5", "4", "7", "7", "5", "8", "0", "8">>

\* <operator> <integer>, with and without the semicolon
PrefixInputs ==
    {<<Tok(op), IntTok(d)>> \o tail :
        op \in {token_BANG, token_MINUS},
        d \in IntLits \cup ZeroLits \cup {TooLargeLit},
        tail \in {<<>>, <<Tok(token_SEMICOLON)>>}}

\* <integer> or <identifier>, with and without the semicolon
OperandInputs ==
    {<<t>> \o tail :
        t \in {IntTok(d) : d \in IntLits \cup ZeroLits \cup {TooLargeLit}}
               \cup {IdentTok(n) : n \in Idents},
        tail \in {<<>>, <<Tok(token_SEMICOLON)>>}}

\* a OP1 b OP2 c, with and without the semicolon
ChainInputs ==
    {<<IdentTok(<<"a">>), Tok(op1), IdentTok(<<"b">>), Tok(op2), IdentTok(<<"c">>)>>
        \o tail :
        op1 \in precedenceKeys, op2 \in precedenceKeys,
        tail \in {<<>>, <<Tok(token_SEMICOLON)>>}}

\* an integer past the largest int64, and up to two tokens after it
MalformedInputs ==
    {<<IntTok(TooLargeLit)>> \o rest :
        rest \in UNION {[1..n -> Alphabet] : n \in {0, 1, 2}}}

Inputs ==
    ArbitraryInputs \cup StatementInputs \cup PrefixInputs \cup OperandInputs
        \cup ChainInputs \cup MalformedInputs

(***************************************************************************)
(* The state after New(l), as ParseProgram is called.                      *)
(***************************************************************************)
Init ==
    /\ input \in Inputs
    /\ p = New(input)
    /\ program = [Statements |-> <<>>]
    /\ pc = "ParseProgram"
    /\ stmt = NilIface
    /\ stack = <<>>
    /\ leftExp = Nil
    /\ precedence = LOWEST

(***************************************************************************)
(* ParseProgram: the loop test, and the return when the current token is   *)
(* the end of the input.                                                   *)
(***************************************************************************)
ParseProgramReturn ==
    /\ pc = "ParseProgram"
    /\ curTokenIs(p, token_EOF)
    /\ pc' = "done"
    /\ UNCHANGED <<input, p, program, stmt, stack, leftExp, precedence>>

\* parseStatement: the switch on the current token's kind
parseStatement ==
    /\ pc = "ParseProgram"
    /\ ~curTokenIs(p, token_EOF)
    /\ pc' = CASE p.curToken.Type = token_LET    -> "parseLetStatement"
               [] p.curToken.Type = token_RETURN -> "parseReturnStatement"
               [] OTHER                          -> "parseExpressionStatement"
    /\ UNCHANGED <<input, p, program, stmt, stack, leftExp, precedence>>

\* parseLetStatement up to its loop: the two expectPeek calls
parseLetStatement ==
    /\ pc = "parseLetStatement"
    /\ LET tok == p.curToken
           e1 == expectPeek(input, p, token_IDENT)
           name == Identifier(e1.q.curToken)
           e2 == expectPeek(input, e1.q, token_ASSIGN)
       IN  IF ~e1.ok
           THEN /\ p' = e1.q
                /\ stmt' = Iface("*ast.LetStatement", Nil)
                /\ pc' = "appendStatement"
           ELSE IF ~e2.ok
           THEN /\ p' = e2.q
                /\ stmt' = Iface("*ast.LetStatement", Nil)
                /\ pc' = "appendStatement"
           ELSE /\ p' = e2.q
                /\ stmt' = Iface("*ast.LetStatement", LetStatement(tok, name))
                /\ pc' = "letSkip"
    /\ UNCHANGED <<input, program, stack, leftExp, precedence>>

\* parseLetStatement's loop: one test, and one nextToken or the return
letSkip ==
    /\ pc = "letSkip"
    /\ IF curTokenIs(p, token_SEMICOLON)
       THEN pc' = "appendStatement" /\ p' = p
       ELSE pc' = "letSkip" /\ p' = nextToken(input, p)
    /\ UNCHANGED <<input, program, stmt, stack, leftExp, precedence>>

\* parseReturnStatement up to its loop
parseReturnStatement ==
    /\ pc = "parseReturnStatement"
    /\ stmt' = Iface("*ast.ReturnStatement", ReturnStatement(p.curToken))
    /\ p' = nextToken(input, p)
    /\ pc' = "returnSkip"
    /\ UNCHANGED <<input, program, stack, leftExp, precedence>>

\* parseReturnStatement without its loop
returnSkip_NoLoop ==
    /\ pc = "returnSkip"
    /\ pc' = "appendStatement"
    /\ UNCHANGED <<input, p, program, stmt, stack, leftExp, precedence>>

\* parseReturnStatement's loop: one test, and one nextToken or the return
returnSkip ==
    /\ pc = "returnSkip"
    /\ IF curTokenIs(p, token_SEMICOLON)
       THEN pc' = "appendStatement" /\ p' = p
       ELSE pc' = "returnSkip" /\ p' = nextToken(input, p)
    /\ UNCHANGED <<input, program, stmt, stack, leftExp, precedence>>

\* parseExpressionStatement up to its call of parseExpression(LOWEST)
parseExpressionStatement ==
    /\ pc = "parseExpressionStatement"
    /\ stmt' = Iface("*ast.ExpressionStatement", ExpressionStatement(p.curToken, Nil))
    /\ precedence' = LOWEST
    /\ pc' = "parseExpression"
    /\ UNCHANGED <<input, p, program, stack, leftExp>>

\* parseExpression: the lookup of the prefix handler and the call of it.
\* parsePrefixExpression is suspended on the stack at its call of
\* parseExpression(PREFIX).  The parameter precedence is never read.
parseExpression ==
    /\ pc = "parseExpression"
    /\ LET prefix == prefixParseFns(p.curToken.Type)
       IN  CASE prefix = "nil" ->
                  /\ p' = noPrefixParseFnError(p, p.curToken.Type)
                  /\ leftExp' = Nil
                  /\ pc' = "returnExpression"
                  /\ UNCHANGED <<stack, precedence>>
             [] prefix = "parseIdentifier" ->
                  /\ leftExp' = parseIdentifier(p)
                  /\ pc' = "returnExpression"
                  /\ UNCHANGED <<p, stack, precedence>>
             [] prefix = "parseIntegerLiteral" ->
                  /\ leftExp' = parseIntegerLiteral(p).exp
                  /\ p' = parseIntegerLiteral(p).q
                  /\ pc' = "returnExpression"
                  /\ UNCHANGED <<stack, precedence>>
             [] prefix = "parsePrefixExpression" ->
                  /\ stack' = Append(stack, [Token |-> p.curToken,
                                             precedence |-> precedence])
                  /\ p' = nextToken(input, p)
                  /\ precedence' = PREFIX
                  /\ pc' = "parseExpression"
                  /\ UNCHANGED leftExp
    /\ UNCHANGED <<input, program, stmt>>

\* parseExpression returns into the parsePrefixExpression that called it,
\* which fills Right and returns in turn
parsePrefixExpressionReturn ==
    /\ pc = "returnExpression"
    /\ stack # <<>>
    /\ LET frame == stack[Len(stack)]
       IN  /\ leftExp' = PrefixExpression(frame.Token, leftExp)
           /\ precedence' = frame.precedence
    /\ stack' = SubSeq(stack, 1, Len(stack) - 1)
    /\ pc' = "returnExpression"
    /\ UNCHANGED <<input, p, program, stmt>>

\* parseExpression returns into parseExpressionStatement, which fills
\* Expression, steps over a semicolon that follows, and returns
parseExpressionStatementReturn ==
    /\ pc = "returnExpression"
    /\ stack = <<>>
    /\ stmt' = [stmt EXCEPT !.ptr.Expression = leftExp]
    /\ p' = IF peekTokenIs(p, token_SEMICOLON) THEN nextToken(input, p) ELSE p
    /\ pc' = "appendStatement"
    /\ UNCHANGED <<input, program, stack, leftExp, precedence>>

\* ParseProgram's loop body after parseStatement returned.  stmt always has
\* a dynamic type here (parseStatement returns a converted pointer on each of
\* its three paths), so the test stmt != nil never fails.
appendStatement ==
    /\ pc = "appendStatement"
    /\ program' = IF ~IsNilIface(stmt)
                  THEN [program EXCEPT !.Statements = Append(@, stmt)]
                  ELSE program
    /\ p' = nextToken(input, p)
    /\ pc' = "ParseProgram"
    /\ UNCHANGED <<input, stmt, stack, leftExp, precedence>>

Next ==
    \/ ParseProgramReturn
    \/ parseStatement
    \/ parseLetStatement
    \/ letSkip
    \/ parseReturnStatement
    \/ returnSkip
    \/ parseExpressionStatement
    \/ parseExpression
    \/ parsePrefixExpressionReturn
    \/ parseExpressionStatementReturn
    \/ appendStatement

Spec == Init /\ [][Next]_vars

\* ParseProgram runs whenever it can: a single thread with no scheduler
FairSpec == Spec /\ WF_vars(Next)


(***************************************************************************)
(* Claims.                                                                 *)
(***************************************************************************)
Done == pc = "done"

\* C1: on every finite token stream that ends in the end-of-input token,
\* ParseProgram eventually returns.
C1_ParseProgramReturns == <>Done

\* C1, as a property of states: ParseProgram has returned, or its next step
\* changes the state (the parser never sits in a loop that repeats one state).
C1_ReturnsOrProgresses == Done \/ ENABLED <<Next>>_vars


\* the statements of the program, as ParseProgram returns them
Statements == program.Statements

\* the stream is n let statements: let <identifier> = <integer> ;
IsLetStream(in) ==
    /\ Len(in) % 5 = 0
    /\ \A k \in 0..(Len(in) \div 5 - 1) :
          /\ in[5 * k + 1] = Tok(token_LET)
          /\ in[5 * k + 2].Type = token_IDENT
          /\ in[5 * k + 3] = Tok(token_ASSIGN)
          /\ in[5 * k + 4].Type = token_INT
          /\ in[5 * k + 5] = Tok(token_SEMICOLON)

\* C2: a stream of n well-formed let statements parses (ParseProgram does
\* return) with no error to exactly n statements, in input order, each a
\* LetStatement whose token literal is "let" and whose Name value and Name
\* token literal are the i-th identifier.
C2_LetStatements ==
    IsLetStream(input) =>
        /\ Done \/ ENABLED <<Next>>_vars
        /\ Done =>
              /\ p.errors = <<>>
              /\ Len(Statements) = Len(input) \div 5
              /\ \A i \in 1..Len(Statements) :
                    /\ Statements[i].dyn = "*ast.LetStatement"
                    /\ Statements[i].ptr # Nil
                    /\ TokenLiteral(Statements[i].ptr) = <<"l", "e", "t">>
                    /\ Statements[i].ptr.Name.Value = input[5 * (i - 1) + 2].Literal
                    /\ TokenLiteral(Statements[i].ptr.Name)
                          = input[5 * (i - 1) + 2].Literal

\* C2 witness: two let statements with different names have been parsed
C2_Witness ==
    /\ Done
    /\ IsLetStream(input)
    /\ Len(input) = 10
    /\ input[2] # input[7]
    /\ Len(Statements) = 2

\* the stream is n return statements: return <integer> ;
IsReturnStream(in) ==
    /\ Len(in) % 3 = 0
    /\ \A k \in 0..(Len(in) \div 3 - 1) :
          /\ in[3 * k + 1] = Tok(token_RETURN)
          /\ in[3 * k + 2].Type = token_INT
          /\ in[3 * k + 3] = Tok(token_SEMICOLON)

\* C3: a stream of n return statements parses (ParseProgram does return)
\* with no error to exactly n statements, each a ReturnStatement whose token
\* literal is "return".
C3_ReturnStatements ==
    IsReturnStream(input) =>
        /\ Done \/ ENABLED <<Next>>_vars
        /\ Done =>
              /\ p.errors = <<>>
              /\ Len(Statements) = Len(input) \div 3
              /\ \A i \in 1..Len(Statements) :
                    /\ Statements[i].dyn = "*ast.ReturnStatement"
                    /\ Statements[i].ptr # Nil
                    /\ TokenLiteral(Statements[i].ptr)
                          = <<"r", "e", "t", "u", "r", "n">>

\* C3 witness: three return statements have been parsed
C3_Witness ==
    /\ Done
    /\ IsReturnStream(input)
    /\ Len(input) = 9
    /\ Len(Statements) = 3


\* the text is a run of decimal digits (short enough to be an int64)
IsIntegerText(d) ==
    /\ d # <<>>
    /\ Len(d) <= 18
    /\ \A i \in 1..Len(d) : DigitVal(d[i]) < 10

\* the integer a run of decimal digits denotes
DecimalValue(d) == Horner([i \in 1..Len(d) |-> DigitVal(d[i])], 10, 0)

\* the stream is <! or -> <integer>, with or without a semicolon
IsPrefixInput(in) ==
    /\ Len(in) \in {2, 3}
    /\ in[1] \in {Tok(token_BANG), Tok(token_MINUS)}
    /\ in[2].Type = token_INT
    /\ IsIntegerText(in[2].Literal)
    /\ Len(in) = 3 => in[3] = Tok(token_SEMICOLON)

\* C4: one prefix operator followed by one integer literal, with or without
\* a semicolon, parses with no error to exactly one statement: an
\* ExpressionStatement wrapping a PrefixExpression whose Operator is the
\* operator's literal and whose Right is the IntegerLiteral of the integer.
C4_PrefixExpressions ==
    (Done /\ IsPrefixInput(input)) =>
        /\ p.errors = <<>>
        /\ Len(Statements) = 1
        /\ Statements[1].dyn = "*ast.ExpressionStatement"
        /\ Statements[1].ptr.Expression.node = "PrefixExpression"
        /\ Statements[1].ptr.Expression.Operator = input[1].Literal
        /\ Statements[1].ptr.Expression.Right.node = "IntegerLiteral"
        /\ Statements[1].ptr.Expression.Right.Value = DecimalValue(input[2].Literal)
        /\ TokenLiteral(Statements[1].ptr.Expression.Right) = input[2].Literal

\* the stream is one operand (an integer or an identifier) and a semicolon
IsOperandInput(in) ==
    /\ Len(in) = 2
    /\ \/ in[1].Type = token_INT /\ IsIntegerText(in[1].Literal)
       \/ in[1].Type = token_IDENT
    /\ in[2] = Tok(token_SEMICOLON)

\* C5: one operand token followed by a semicolon parses with no error to
\* exactly one statement: an ExpressionStatement wrapping the IntegerLiteral
\* with the integer's value, or the Identifier with the name, whose token
\* literal is the token's text.
C5_OperandStatement ==
    (Done /\ IsOperandInput(input)) =>
        /\ p.errors = <<>>
        /\ Len(Statements) = 1
        /\ Statements[1].dyn = "*ast.ExpressionStatement"
        /\ TokenLiteral(Statements[1].ptr.Expression) = input[1].Literal
        /\ IF input[1].Type = token_INT
           THEN /\ Statements[1].ptr.Expression.node = "IntegerLiteral"
                /\ Statements[1].ptr.Expression.Value = DecimalValue(input[1].Literal)
           ELSE /\ Statements[1].ptr.Expression.node = "Identifier"
                /\ Statements[1].ptr.Expression.Value = input[1].Literal


\* the stream is a OP1 b OP2 c over the binary operators, with or without a
\* semicolon
IsChain(in) ==
    /\ Len(in) \in {5, 6}
    /\ \A i \in {1, 3, 5} : in[i].Type = token_IDENT
    /\ \A i \in {2, 4} : in[i].Type \in precedenceKeys /\ in[i] = Tok(in[i].Type)
    /\ Len(in) = 6 => in[6] = Tok(token_SEMICOLON)

\* C6: a chain a OP b OP c of two binary operators of equal precedence
\* parses to a single expression statement that is left-nested:
\* ((a OP b) OP c).
C6_LeftNested ==
    (Done /\ IsChain(input)
          /\ precedences(input[2].Type) = precedences(input[4].Type)) =>
        /\ Len(Statements) = 1
        /\ Statements[1].dyn = "*ast.ExpressionStatement"
        /\ Statements[1].ptr.Expression =
              InfixExpression(input[4],
                  InfixExpression(input[2], Identifier(input[1]), Identifier(input[3])),
                  Identifier(input[5]))

\* C7: in a OP2 b OP1 c where OP1 has a strictly higher level in the
\* precedence table than OP2, the tighter operator is nested under the looser
\* one in a single expression statement: (a OP2 (b OP1 c)).
C7_TighterNestsDeeper ==
    (Done /\ IsChain(input)
          /\ precedences(input[4].Type) > precedences(input[2].Type)) =>
        /\ Len(Statements) = 1
        /\ Statements[1].dyn = "*ast.ExpressionStatement"
        /\ Statements[1].ptr.Expression =
              InfixExpression(input[2],
                  Identifier(input[1]),
                  InfixExpression(input[4], Identifier(input[3]), Identifier(input[5])))

\* parseExpression is entered on a token with no registered prefix handler
MissingHandler ==
    pc = "parseExpression" /\ prefixParseFns(p.curToken.Type) = "nil"

\* some token of the stream has been reported as having no prefix handler
HasMissingHandlerError ==
    \E i \in 1..Len(p.errors) : p.errors[i][1] = noPrefixMsg("")[1]

\* C8: when parseExpression is entered on a token whose kind has no prefix
\* handler, exactly one error "no prefix parse function for <kind> found" is
\* appended for that token and the expression for that position is nil
\* (parseExpression returns to its caller, having consumed nothing); and the
\* parse is not aborted: ParseProgram returns only with the whole stream
\* consumed, each later token having been handed to the statement parsers.
C8_MissingHandler ==
    /\ [][MissingHandler =>
            /\ p'.errors = Append(p.errors, noPrefixMsg(p.curToken.Type))
            /\ leftExp' = Nil
            /\ pc' = "returnExpression"
            /\ p'.curToken = p.curToken /\ p'.peekToken = p.peekToken /\ p'.l = p.l
            /\ program' = program]_vars
    /\ [][(pc = "appendStatement" /\ HasMissingHandlerError) =>
            /\ pc' = "ParseProgram"
            /\ p'.curToken = p.peekToken
            /\ p'.errors = p.errors]_vars
    /\ []((Done /\ HasMissingHandlerError) =>
            /\ curTokenIs(p, token_EOF)
            /\ p.l = Len(input) + 1)

\* C8 witness: a token without a prefix handler was reported, and the
\* statement after it has been parsed into the program
C8_Witness ==
    /\ Done
    /\ Len(p.errors) = 1
    /\ p.errors[1] = noPrefixMsg(token_ASTERISK)
    /\ input[1] = Tok(token_ASTERISK)
    /\ Len(Statements) = 2
    /\ Statements[2].dyn = "*ast.LetStatement"
    /\ Statements[2].ptr # Nil


\* every PrefixExpression and InfixExpression of the expression has its
\* operands
RECURSIVE FullyBuilt(_)
FullyBuilt(e) ==
    CASE e.node = "PrefixExpression" -> e.Right # Nil /\ FullyBuilt(e.Right)
      [] e.node = "InfixExpression"  -> /\ e.Left # Nil /\ FullyBuilt(e.Left)
                                        /\ e.Right # Nil /\ FullyBuilt(e.Right)
      [] OTHER                       -> TRUE

\* C9: the Program ParseProgram returns holds no nil statement and no
\* ExpressionStatement whose expression is nil, and every PrefixExpression
\* and InfixExpression in it has its operands.
C9_NodesFullyBuilt ==
    Done =>
        \A i \in 1..Len(Statements) :
            /\ ~IsNilIface(Statements[i])
            /\ Statements[i].ptr # Nil
            /\ Statements[i].dyn = "*ast.ExpressionStatement" =>
                  /\ Statements[i].ptr.Expression # Nil
                  /\ FullyBuilt(Statements[i].ptr.Expression)

\* parseLetStatement is entered on a let that is not followed by an
\* identifier, or whose identifier is not followed by an assignment token
MalformedLet ==
    /\ pc = "parseLetStatement"
    /\ \/ ~peekTokenIs(p, token_IDENT)
       \/ NextToken(input, p.l).tok.Type # token_ASSIGN

\* C10: on such a let statement an error "expected next token to be <kind>,
\* got <kind> instead" naming the expected kind and the lookahead's kind is
\* appended and the let statement's result is nil; no LetStatement enters
\* the program, and the driver advances to the next token and goes on with
\* the statements after it.
C10_MalformedLet ==
    /\ [][MalformedLet =>
            /\ p'.errors = Append(p.errors,
                  IF ~peekTokenIs(p, token_IDENT)
                  THEN peekErrorMsg(token_IDENT, p.peekToken.Type)
                  ELSE peekErrorMsg(token_ASSIGN, NextToken(input, p.l).tok.Type))
            /\ stmt'.ptr = Nil
            /\ pc' = "appendStatement"]_vars
    /\ [][(pc = "appendStatement" /\ stmt.ptr = Nil) =>
            /\ program' = program
            /\ p'.curToken = p.peekToken
            /\ pc' = "ParseProgram"]_vars


\* the text is not a 64-bit signed integer: it is empty, holds a character
\* that is no decimal digit, or denotes a number past the largest int64
NotInt64Text(d) ==
    LET ds == [i \in 1..Len(d) |-> DigitVal(d[i])]
        sig == StripZeros(ds)
    IN  \/ d = <<>>
        \/ \E i \in 1..Len(d) : ds[i] >= 10
        \/ Len(sig) > Len(MaxInt64Digits(10))
        \/ Len(sig) = Len(MaxInt64Digits(10)) /\ DigitsGreater(sig, MaxInt64Digits(10))

\* parseExpression is entered on an integer token whose text is not a 64-bit
\* signed integer
MalformedInt ==
    /\ pc = "parseExpression"
    /\ p.curToken.Type = token_INT
    /\ NotInt64Text(p.curToken.Literal)

\* the text of some integer token has been reported as malformed
HasParseIntError ==
    \E i \in 1..Len(p.errors) : p.errors[i][1] = parseIntMsg(<<>>)[1]

\* C11, the step: on such a token parseIntegerLiteral appends exactly the one
\* error "could not parse <text> as integer" and returns nil instead of an
\* IntegerLiteral, and returns to its caller.
C11_MalformedStep ==
    [][MalformedInt =>
          /\ p'.errors = Append(p.errors, parseIntMsg(p.curToken.Literal))
          /\ leftExp' = Nil
          /\ pc' = "returnExpression"]_vars

\* C11: the step above, and the parse does not crash: after the error
\* ParseProgram continues and returns a Program (it has returned, or its next
\* step changes the state).
C11_MalformedLiteral ==
    /\ C11_MalformedStep
    /\ [](HasParseIntError => (Done \/ ENABLED <<Next>>_vars))


\* a is a prefix of b
IsPrefixOf(a, b) == Len(a) <= Len(b) /\ SubSeq(b, 1, Len(a)) = a

\* C12: the error list is empty right after New, and every step of
\* ParseProgram leaves the errors it had as a prefix of the errors it has: no
\* error is removed, reordered or rewritten.
C12_ErrorsAppendOnly ==
    /\ p.errors = <<>>
    /\ [][IsPrefixOf(p.errors, p'.errors)]_vars

\* C12 witness: ParseProgram has returned with two different errors, an
\* unexpected-token error after a missing-handler error
C12_Witness ==
    /\ Done
    /\ Len(p.errors) >= 2
    /\ p.errors[1] = noPrefixMsg(token_ASSIGN)
    /\ p.errors[2] = peekErrorMsg(token_IDENT, token_INT)


====
